---- MODULE Spec2Model ----
(***************************************************************************)
(* The motion-triggered recording appliance of rivindu02/Smart-Security-   *)
(* camera.  The repository holds six variants of one script (debug.py,     *)
(* debug2.py, debug3.py, security_camera.py, new.py, usb.py); the variable *)
(* `variant` says which of them runs.  Each variant has one sensor-polling *)
(* thread (motion_detection), one record_video thread per started session, *)
(* one trigger_alarm thread per alarm, the web preview (generate_frames),  *)
(* the snapshot route and the control routes.                              *)
(*                                                                         *)
(* Time is discrete.  One tick is TickSeconds(variant) seconds, a common   *)
(* divisor of the variant's RECORD_DURATION and COOLDOWN_TIME.  A sleep    *)
(* shorter than a tick (the 0.1 s poll interval, the 1/FPS frame interval) *)
(* completes within the tick: the clock advances only when every thread is *)
(* in a timed sleep or blocked on an upload.  Steps of different threads   *)
(* interleave freely within a tick.                                        *)
(***************************************************************************)
EXTENDS Integers, Sequences, FiniteSets

VARIABLES
    variant,         \* which script of the repository is running
    bot,             \* TRUE when the Telegram bot object exists (bot is not None)
    now,             \* the wall clock in ticks since start (kept where ClockRuns)
    pir,             \* pir.motion_detected, the sensor's level
    motion012,       \* the sensor read motion in each of the ticks 0, 1, 2 so far
    motion_enabled,  \* global motion_enabled
    recording,       \* global recording
    motion_count,    \* global motion_count
    mpc,             \* motion_detection thread: "run" or "dead"
    cd,              \* ticks left of motion_detection's time.sleep(COOLDOWN_TIME)
    sinceAcc,        \* ticks since motion_detection last accepted, -1 if never
    sinceRel,        \* ticks since that session released its writer, -1 if not yet
    lowSeen,         \* the sensor read no motion in some tick since that acceptance
    roseOff,         \* the sensor's present high level began while motion_enabled
                     \* was false
    nCompleted,      \* record_video threads that returned with status Completed
    nStarted,        \* record_video threads started so far
    rec,             \* the record_video threads, by order of start
    buzzer,          \* the buzzer is on
    alarm,           \* the trigger_alarm threads
    prev,            \* the /video_feed generator (generate_frames)
    snap,            \* the /snapshot request (usb.py: and the bot's /snapshot)
    video_writer,    \* the global video_writer of debug2.py and usb.py
    sd,              \* the process's handling of SIGINT / SIGTERM
    tg,              \* the toggle handlers in flight, statement by statement
    toggledOdd       \* an odd number of those handlers has completed

\* what no step but a toggle handler's own (SpecToggle) changes
cfgVars == <<variant, bot, tg, toggledOdd>>
envVars == <<now, pir, motion012, lowSeen, roseOff>>
camVars == <<prev, snap>>
alarmVars == <<buzzer, alarm>>
stopVars == <<video_writer, sd>>

vars == <<variant, bot, now, pir, motion012, lowSeen, roseOff, motion_enabled,
          recording, motion_count, mpc, cd, sinceAcc, sinceRel, nStarted,
          nCompleted, rec,
          buzzer, alarm, prev, snap, video_writer, sd, tg, toggledOdd>>

(***************************************************************************)
(* Bounds of the model.                                                    *)
(***************************************************************************)
MaxSessions == 2
MaxClock == 16
MaxManualAlarms == 1

(***************************************************************************)
(* The variants and what distinguishes them.                               *)
(***************************************************************************)
Variants == {"debug", "debug2", "debug3", "security_camera", "new", "usb"}

\* the scripts that record through picamera2's encoder (start_recording)
IsPicam(v) == v \in {"security_camera", "new"}

\* the scripts with a /toggle_motion route (usb.py also a bot command)
HasToggle(v) == v \in {"security_camera", "new", "usb"}

\* the scripts with a /test_recording route
HasTestRecording(v) == v \in {"debug2", "debug3"}

\* the scripts whose motion_detection loop body sits in try/except
LoopHasTry(v) == v \in {"security_camera", "new", "usb"}

\* the scripts that create a Telegram bot
HasBot(v) == v # "debug"

\* the recording loop's condition reads motion_enabled (all but debug.py)
\* variation of LoopReadsEnabled: no variant's loop reads the flag
LoopIgnoresEnabled(v) == FALSE

LoopReadsEnabled(v) == v # "debug"

\* the recording loop sits in try/except/finally
RecHasTry(v) == v \in {"debug3", "usb", "security_camera", "new"}

RECORD_DURATION(v) ==
    CASE v = "debug" -> 10
      [] v \in {"debug2", "debug3"} -> 10
      [] OTHER -> 180

COOLDOWN_TIME(v) ==
    CASE v = "debug" -> 5
      [] v \in {"debug2", "debug3"} -> 30
      [] OTHER -> 300

\* seconds per tick: a common divisor of the two durations of the variant
TickSeconds(v) ==
    CASE v = "debug" -> 1
      [] v \in {"debug2", "debug3"} -> 10
      [] OTHER -> 60

\* The wall clock is kept for debug.py, whose durations (RECORD_DURATION 10,
\* COOLDOWN_TIME 5) the timed scenario of the specification names; the other
\* variants are timed by the relative ages sinceAcc and sinceRel alone.
ClockRuns(v) == v = "debug"

RecordTicks(v) == RECORD_DURATION(v) \div TickSeconds(v)
CooldownTicks(v) == COOLDOWN_TIME(v) \div TickSeconds(v)

(***************************************************************************)
(* record_video threads.  Slot i holds the i-th thread started.            *)
(*   pc      where the thread is                                           *)
(*   origin  "sensor" (motion_detection started it) or "test"              *)
(*   el      time.time() - start_time, in ticks, while in the loop         *)
(*   active  between recording = True and recording = False                *)
(*   status  the session's status in the spec's terms                      *)
(*   early   the loop ended with time left, on a motion_enabled that was   *)
(*           cleared while the thread was in the loop                      *)
(*   cancel  motion_enabled was cleared while the thread is in its loop    *)
(*   edge    lowSeen when motion_detection started the thread              *)
(*   stale   roseOff when motion_detection started the thread              *)
(*   counted increments of motion_count made by this thread                *)
(*   sends   bot.send_video calls made by this thread                      *)
(*   file    the recording file: "none", "disk", "removed"                 *)
(*   sent    how bot.send_video ended: "none", "ok", "failed"              *)
(*   alert   the 'new_alert' event the thread published about the session: *)
(*           "none", "Recording failed", "Failed to send", "Video sent"    *)
(*   released  the writer was released / picam2.stop_recording() returned  *)
(*   alertN  the count in the 'alert' event motion_detection published     *)
(*           when it started the thread (security_camera.py), 0: no event  *)
(*   emitN   the count in the event record_video published, 0: no event    *)
(* A thread that has returned keeps its pc ("done") and origin only.       *)
(***************************************************************************)
Sessions == 1..MaxSessions

NoRec == [pc |-> "none", origin |-> "none", el |-> 0, active |-> FALSE,
          status |-> "none", early |-> FALSE, cancel |-> FALSE,
          edge |-> FALSE, stale |-> FALSE, counted |-> 0, sends |-> 0,
          file |-> "none", sent |-> "none", alert |-> "none",
          released |-> FALSE, alertN |-> 0, emitN |-> 0]

\* threading.Thread(target=record_video).start()
Spawned(who) ==
    [NoRec EXCEPT !.pc = "spawned", !.origin = who, !.status = "Pending",
                  !.edge = (who = "sensor" /\ lowSeen),
                  !.stale = (who = "sensor" /\ roseOff)]

\* variation of AfterLoop: the flag is cleared before the delivery
AfterLoopClearFirst(v) ==
    CASE v = "debug" -> <<"release", "count", "emit", "clear", "exit">>
      [] OTHER -> <<"release", "count", "emit", "clear", "deliver", "exit">>

\* the statements of record_video after its loop, in the variant's order
AfterLoop(v) ==
    CASE v = "debug" -> <<"release", "count", "emit", "clear", "exit">>
      [] v = "debug2" -> <<"release", "count", "deliver", "clear", "emit", "exit">>
      [] v \in {"debug3", "usb"} ->
             <<"release", "deliver", "clear", "count", "emit", "exit">>
      [] OTHER -> <<"release", "count", "emit", "deliver", "clear", "exit">>

RECURSIVE IndexOf(_, _, _)
IndexOf(s, x, k) == IF k > Len(s) THEN 0 ELSE IF s[k] = x THEN k ELSE IndexOf(s, x, k + 1)

\* the statement after `pc` in record_video
After(v, pc) == AfterLoop(v)[IndexOf(AfterLoop(v), pc, 1) + 1]

\* pcs at which a thread computes (takes no time)
PromptPcs ==
    {"spawned", "open", "reading", "release", "count", "emit", "clear", "deliver",
     "exit"}

(***************************************************************************)
(* trigger_alarm threads.  Slot i <= MaxSessions holds the thread that     *)
(* motion_detection started together with record_video thread i; the slots *)
(* above hold the threads the alarm routes started.                        *)
(*   pc    "none", "spawned", "sleep" (buzzer switched on), "emit", "done" *)
(*   left  ticks left of time.sleep(duration)                              *)
(*   said  events the thread has published ('alarm_triggered', 'new_alert') *)
(***************************************************************************)
Alarms == 1..(MaxSessions + MaxManualAlarms)

NoAlarm == [pc |-> "none", left |-> 0, said |-> 0]

\* trigger_alarm's default duration, in seconds
ALARM_DURATION(v) == IF v \in {"debug", "debug2", "debug3"} THEN 1 ELSE 5

AlarmTicks(v) == ALARM_DURATION(v) \div TickSeconds(v)

\* threading.Thread(target=trigger_alarm).start()
SpawnedAlarm == [pc |-> "spawned", left |-> 0, said |-> 0]

\* the thread motion_detection started last (0 if none)
LastSensor ==
    LET S == {i \in Sessions : rec[i].origin = "sensor"}
    IN IF S = {} THEN 0 ELSE CHOOSE i \in S : \A j \in S : j <= i

\* variation of LoopCond: the loop gives up one tick early
LoopCondShort(i) ==
    /\ rec[i].el < RecordTicks(variant) - 1
    /\ (LoopReadsEnabled(variant) => motion_enabled)

\* the recording loop's condition, as thread i reads it
LoopCond(i) ==
    /\ rec[i].el < RecordTicks(variant)
    /\ LoopReadsEnabled(variant) => motion_enabled

(***************************************************************************)
(* Initial state: the globals as the scripts set them at import.           *)
(***************************************************************************)
(***************************************************************************)
(* SIGINT / SIGTERM.  usb.py installs `lambda s, f: [cleanup(), exit(0)]`, *)
(* security_camera.py and new.py install `lambda s, f: cleanup()` (the     *)
(* process goes on after it), the debug scripts install nothing and leave  *)
(* at once.  cleanup() is one try block in usb.py and two in the picamera2 *)
(* variants; a call that raises skips the rest of its try block, a call    *)
(* that hangs keeps the handler for ever.                                  *)
(*   pc      "running", "cleaned" (handler returned, process goes on),     *)
(*           "exited" (exit(0) or the default action), "hung"              *)
(*   log     the calls cleanup() made, in order                            *)
(*   failed  the calls among them that raised or hung                      *)
(***************************************************************************)
NoStop == [pc |-> "running", log |-> <<>>, failed |-> {}]

(***************************************************************************)
(* The global video_writer.  debug2.py and usb.py keep the cv2.VideoWriter *)
(* of the session in a global that record_video assigns, writes to,        *)
(* releases and sets back to None, and that usb.py's generate_frames and   *)
(* cleanup read; the other scripts keep the writer in a local.             *)
(*   of  the session whose record_video created the object (0: None)       *)
(*   st  "None", "open", or "closed" (never opened, or released)           *)
(***************************************************************************)
HasWriterGlobal(v) == v \in {"debug2", "usb"}

NoWriter == [of |-> 0, st |-> "None"]

(***************************************************************************)
(* The toggle handlers, statement by statement.  `motion_enabled = not     *)
(* motion_enabled` reads the global, negates the value and stores it; the  *)
(* handlers run on the server's request threads and (usb.py) on the bot's  *)
(* polling thread, with no lock, so another thread can run between the     *)
(* read and the store.  Handler 1 is a request to /toggle_motion; handler  *)
(* 2 is the bot's /toggle_motion command in usb.py and a second request in *)
(* security_camera.py and new.py.                                          *)
(*   pc   "idle", "read" (the global is read, the store is ahead)          *)
(*   val  the value read                                                   *)
(***************************************************************************)
Togglers == {1, 2}

NoToggle == [pc |-> "idle", val |-> FALSE]

Init ==
    /\ variant \in Variants
    /\ bot \in (IF HasBot(variant) THEN BOOLEAN ELSE {FALSE})
    /\ now = 0
    /\ pir \in BOOLEAN
    /\ motion012 = (ClockRuns(variant) /\ pir)
    /\ motion_enabled = TRUE
    /\ recording = FALSE
    /\ motion_count = 0
    /\ mpc = "run"
    /\ cd = 0
    /\ sinceAcc = -1
    /\ sinceRel = -1
    /\ lowSeen = TRUE
    /\ roseOff = FALSE
    /\ nStarted = 0
    /\ nCompleted = 0
    /\ rec = [i \in Sessions |-> NoRec]
    /\ buzzer = FALSE
    /\ alarm = [a \in Alarms |-> NoAlarm]
    /\ prev = "off"
    /\ snap = "idle"
    /\ video_writer = NoWriter
    /\ sd = NoStop
    /\ tg = [h \in Togglers |-> NoToggle]
    /\ toggledOdd = FALSE

(***************************************************************************)
(* motion_detection: one evaluation of                                     *)
(*   if pir.motion_detected and not recording and motion_enabled           *)
(* that holds, with the two Thread(...).start() calls and the start of     *)
(* time.sleep(COOLDOWN_TIME) that follow it.  An evaluation that does not  *)
(* hold changes nothing (time.sleep(0.1), then the next one).              *)
(* security_camera.py emits 'alert' with 'count': motion_count + 1 between *)
(* the thread starts and the sleep.                                        *)
(***************************************************************************)
\* variation of Accepts: the monitor does not look at motion_enabled
AcceptsWhileDisabled == pir /\ ~recording

\* variation of Accepts: the monitor wants a low reading since it last accepted
AcceptsOnEdge == pir /\ ~recording /\ motion_enabled /\ lowSeen

\* variation of Accepts: the monitor ignores a level that rose while disabled
AcceptsFreshOnly == pir /\ ~recording /\ motion_enabled /\ ~roseOff

Accepts == pir /\ ~recording /\ motion_enabled

\* motion_detection is at its `if` (not dead, not in its cooldown sleep)
AtPoll == mpc = "run" /\ cd = 0

\* variation of CooldownSleep: the monitor sleeps one tick short
CooldownSleepShort == CooldownTicks(variant) - 1

\* the ticks time.sleep(COOLDOWN_TIME) lasts
CooldownSleep == CooldownTicks(variant)

\* variation of Poll: the accepting iteration starts no trigger_alarm thread
PollNoAlarm ==
    /\ AtPoll
    /\ Accepts
    /\ nStarted < MaxSessions
    /\ nStarted' = nStarted + 1
    /\ rec' = [rec EXCEPT ![nStarted + 1] = Spawned("sensor")]
    /\ cd' = CooldownSleep
    /\ sinceAcc' = 0
    /\ sinceRel' = -1
    /\ lowSeen' = FALSE
    /\ UNCHANGED <<camVars, alarmVars, cfgVars, stopVars, nCompleted, now, pir, motion012,
                   roseOff, motion_enabled, recording, motion_count, mpc>>

Poll ==
    /\ AtPoll
    /\ Accepts
    /\ nStarted < MaxSessions
    /\ nStarted' = nStarted + 1
    /\ rec' = [rec EXCEPT ![nStarted + 1] =
                  [Spawned("sensor") EXCEPT
                     !.alertN = IF variant = "security_camera"
                                THEN motion_count + 1 ELSE 0]]
    /\ cd' = CooldownSleep
    /\ sinceAcc' = 0
    /\ sinceRel' = -1
    /\ lowSeen' = FALSE
    /\ alarm' = [alarm EXCEPT ![nStarted + 1] = SpawnedAlarm]
    /\ UNCHANGED <<camVars, buzzer, cfgVars, stopVars, nCompleted, now, pir, motion012, roseOff,
                   motion_enabled, recording, motion_count, mpc>>

\* pir.motion_detected raises: caught (sleep 1, then the next evaluation)
\* where the loop body sits in try/except, fatal to the thread elsewhere
PollError ==
    /\ AtPoll
    /\ mpc' = IF LoopHasTry(variant) THEN "run" ELSE "dead"
    /\ UNCHANGED <<camVars, alarmVars, cfgVars, stopVars, nCompleted, envVars, motion_enabled, recording,
                   motion_count, cd, sinceAcc, sinceRel, nStarted, rec>>

(***************************************************************************)
(* The clock.  Time passes when no thread is at a computing step: every    *)
(* recording loop would go on, and motion_detection is dead, asleep in its *)
(* cooldown or would not accept.  The sensor's level in the next tick is   *)
(* the environment's choice.                                               *)
(***************************************************************************)
Aged(a) == IF a < 0 \/ a >= CooldownTicks(variant) THEN a ELSE a + 1

Tick ==
    /\ \A i \in Sessions : rec[i].pc \notin PromptPcs
    /\ \A i \in Sessions : rec[i].pc = "loop" => LoopCond(i)
    /\ (AtPoll /\ Accepts) => nStarted = MaxSessions
    /\ prev \notin {"reading", "writing"} /\ snap # "reading"
    /\ now' = IF ClockRuns(variant) /\ now < MaxClock THEN now + 1 ELSE now
    /\ cd' = IF cd > 0 THEN cd - 1 ELSE 0
    /\ sinceAcc' = Aged(sinceAcc)
    /\ sinceRel' = Aged(sinceRel)
    /\ rec' = [i \in Sessions |->
                 IF rec[i].pc = "loop" THEN [rec[i] EXCEPT !.el = rec[i].el + 1]
                 ELSE rec[i]]
    /\ \E level \in BOOLEAN :
          /\ pir' = level
          /\ motion012' = IF ClockRuns(variant) /\ now < 2
                          THEN motion012 /\ level ELSE motion012
          /\ lowSeen' = (lowSeen \/ ~level)
          /\ roseOff' = IF ~level THEN FALSE
                        ELSE IF ~pir THEN ~motion_enabled
                        ELSE roseOff
    /\ alarm' = [a \in Alarms |->
                   IF alarm[a].left > 0 THEN [alarm[a] EXCEPT !.left = alarm[a].left - 1]
                   ELSE alarm[a]]
    /\ UNCHANGED <<camVars, buzzer, cfgVars, stopVars, nCompleted, motion_enabled, recording,
                   motion_count, mpc, nStarted>>

(***************************************************************************)
(* The control routes.                                                     *)
(***************************************************************************)
\* variation of ToggleMotion: disabling motion also switches the buzzer off
ToggleMotionStopsAlarm ==
    /\ HasToggle(variant)
    /\ motion_enabled' = ~motion_enabled
    /\ buzzer' = (buzzer /\ ~motion_enabled)
    /\ rec' = [i \in Sessions |->
                 IF motion_enabled /\ rec[i].pc \in {"loop", "reading"}
                 THEN [rec[i] EXCEPT !.cancel = TRUE]
                 ELSE rec[i]]
    /\ UNCHANGED <<camVars, alarm, cfgVars, stopVars, nCompleted, envVars, recording, motion_count, mpc,
                   cd, sinceAcc, sinceRel, nStarted>>

\* /toggle_motion (and usb.py's /toggle_motion bot command)
ToggleMotion ==
    /\ HasToggle(variant)
    /\ motion_enabled' = ~motion_enabled
    /\ rec' = [i \in Sessions |->
                 IF motion_enabled /\ rec[i].pc \in {"loop", "reading"}
                 THEN [rec[i] EXCEPT !.cancel = TRUE]
                 ELSE rec[i]]
    /\ UNCHANGED <<camVars, alarmVars, cfgVars, stopVars, nCompleted, envVars, recording, motion_count, mpc,
                   cd, sinceAcc, sinceRel, nStarted>>

\* a toggle handler starts and reads motion_enabled
ToggleLoad(h) ==
    /\ HasToggle(variant)
    /\ h = 2 => (variant # "usb" \/ bot)
    /\ tg[h].pc = "idle"
    /\ tg' = [tg EXCEPT ![h] = [pc |-> "read", val |-> motion_enabled]]
    /\ UNCHANGED <<camVars, alarmVars, variant, bot, toggledOdd, stopVars, nCompleted, envVars,
                   motion_enabled, recording, motion_count, mpc, cd, sinceAcc, sinceRel,
                   nStarted, rec>>

\* the handler stores the negation of the value it read, emits
\* 'motion_toggle' and returns
ToggleStore(h) ==
    /\ tg[h].pc = "read"
    /\ motion_enabled' = ~tg[h].val
    /\ tg' = [tg EXCEPT ![h] = NoToggle]
    /\ toggledOdd' = ~toggledOdd
    /\ rec' = [i \in Sessions |->
                 IF motion_enabled /\ tg[h].val /\ rec[i].pc \in {"loop", "reading"}
                 THEN [rec[i] EXCEPT !.cancel = TRUE]
                 ELSE rec[i]]
    /\ UNCHANGED <<camVars, alarmVars, variant, bot, stopVars, nCompleted, envVars, recording,
                   motion_count, mpc, cd, sinceAcc, sinceRel, nStarted>>

\* /test_recording: if not recording: Thread(target=record_video).start()
TestRecording ==
    /\ HasTestRecording(variant)
    /\ ~recording
    /\ nStarted < MaxSessions
    /\ nStarted' = nStarted + 1
    /\ rec' = [rec EXCEPT ![nStarted + 1] = Spawned("test")]
    /\ UNCHANGED <<camVars, alarmVars, cfgVars, stopVars, nCompleted, envVars, motion_enabled, recording,
                   motion_count, mpc, cd, sinceAcc, sinceRel>>

(***************************************************************************)
(* record_video, statement by statement.                                   *)
(***************************************************************************)
\* recording = True
RecBegin(i) ==
    /\ rec[i].pc = "spawned"
    /\ recording' = TRUE
    /\ rec' = [rec EXCEPT ![i].pc = "open", ![i].active = TRUE, ![i].status = "Active"]
    /\ UNCHANGED <<camVars, alarmVars, cfgVars, stopVars, nCompleted, envVars, motion_enabled, motion_count,
                   mpc, cd, sinceAcc, sinceRel, nStarted>>

\* the recording target is opened: cv2.VideoWriter(...) (checked with
\* isOpened() in usb.py only) or picam2.start_recording(filename), which
\* raises on failure (new.py's except clause publishes 'Recording failed');
\* then start_time = time.time().  debug2.py and usb.py keep the writer in
\* the global video_writer, opened or not.
RecOpen(i) ==
    /\ rec[i].pc = "open"
    /\ \E ok \in BOOLEAN :
          /\ IF ok \/ variant \in {"debug", "debug2", "debug3"}
             THEN /\ rec' = [rec EXCEPT ![i].pc = "loop",
                                        ![i].file = IF ok THEN "disk" ELSE "none"]
                  /\ UNCHANGED recording
             ELSE /\ rec' = [rec EXCEPT ![i].pc = "exit", ![i].active = FALSE,
                                        ![i].status = "Aborted",
                                        ![i].alert = IF variant = "new"
                                                     THEN "Recording failed"
                                                     ELSE "none"]
                  /\ recording' = FALSE
          /\ video_writer' = IF HasWriterGlobal(variant)
                              THEN [of |-> i, st |-> IF ok THEN "open" ELSE "closed"]
                              ELSE video_writer
    /\ UNCHANGED <<camVars, alarmVars, cfgVars, sd, nCompleted, envVars, motion_enabled, motion_count,
                   mpc, cd, sinceAcc, sinceRel, nStarted>>

\* one evaluation of the while condition; when it holds the cv2 variants
\* enter camera.read(), the picamera2 variants sleep 0.1 s
RecLoop(i) ==
    /\ rec[i].pc = "loop"
    /\ IF LoopCond(i)
       THEN rec' = [rec EXCEPT ![i].pc = IF IsPicam(variant) THEN "loop" ELSE "reading"]
       ELSE rec' = [rec EXCEPT ![i].pc = "release", ![i].el = 0, ![i].cancel = FALSE,
                               ![i].early = (rec[i].cancel
                                             /\ rec[i].el < RecordTicks(variant))]
    /\ UNCHANGED <<camVars, alarmVars, cfgVars, stopVars, nCompleted, envVars, motion_enabled, recording,
                   motion_count, mpc, cd, sinceAcc, sinceRel, nStarted>>

\* the global video_writer is None when a thread of debug2.py or usb.py
\* comes to use it (another record_video thread has set it back)
WriterGone == HasWriterGlobal(variant) /\ video_writer.st = "None"

\* camera.read() returns: a frame (written, then sleep 1/FPS), no frame
\* (ret False: usb.py breaks, the others skip the write), or an exception
\* from the read or the write (caught by debug3.py and usb.py only).
\* video_writer.write(frame) on a global that is None is such an exception.
RecRead(i) ==
    /\ rec[i].pc = "reading"
    /\ \E res \in {"frame", "noframe", "raise"} :
          CASE res = "frame" /\ ~WriterGone -> rec' = [rec EXCEPT ![i].pc = "loop"]
            [] res = "noframe" ->
                 IF variant = "usb"
                 THEN rec' = [rec EXCEPT ![i].pc = "release", ![i].status = "Failed",
                                         ![i].el = 0, ![i].cancel = FALSE]
                 ELSE rec' = [rec EXCEPT ![i].pc = "loop"]
            [] OTHER ->
                 IF RecHasTry(variant)
                 THEN rec' = [rec EXCEPT ![i].pc = "release", ![i].status = "Failed",
                                         ![i].el = 0, ![i].cancel = FALSE]
                 ELSE rec' = [rec EXCEPT ![i] =
                                [NoRec EXCEPT !.pc = "dead", !.active = TRUE,
                                              !.origin = rec[i].origin,
                                              !.status = "Failed"]]
    /\ UNCHANGED <<camVars, alarmVars, cfgVars, stopVars, nCompleted, envVars, motion_enabled, recording,
                   motion_count, mpc, cd, sinceAcc, sinceRel, nStarted>>

\* the writer is released (out.release(), video_writer.release(),
\* picam2.stop_recording()).  stop_recording() may raise, which skips to the
\* except clause (new.py publishes 'Recording failed' there) and the
\* finally clause; after it the picamera2 variants go on only
\* `if motion_enabled`.  debug2.py and usb.py release the object the global
\* video_writer holds, whichever session created it; when the global is
\* None debug2.py's call raises (the thread dies) and usb.py's
\* `if video_writer:` skips the release and the delivery.
RecRelease(i) ==
    /\ rec[i].pc = "release"
    /\ \E ok \in (IF IsPicam(variant) THEN BOOLEAN ELSE {TRUE}) :
          LET g == IF HasWriterGlobal(variant) THEN video_writer.of ELSE i
              did == ok /\ ~WriterGone
              st == IF ~ok THEN "Failed"
                    ELSE IF rec[i].status = "Active" THEN "Completed"
                    ELSE rec[i].status
              nxt == IF WriterGone \/ (IsPicam(variant) /\ ~(ok /\ motion_enabled))
                     THEN "clear" ELSE After(variant, "release")
              al == IF ~ok /\ variant = "new" THEN "Recording failed"
                    ELSE rec[i].alert
          IN IF WriterGone /\ variant = "debug2"
             THEN /\ rec' = [rec EXCEPT ![i] =
                                [NoRec EXCEPT !.pc = "dead", !.active = TRUE,
                                              !.origin = rec[i].origin,
                                              !.status = "Failed"]]
                  /\ UNCHANGED <<sinceRel, video_writer>>
             ELSE /\ rec' = [j \in Sessions |->
                               IF j = i
                               THEN [rec[i] EXCEPT !.pc = nxt, !.status = st, !.alert = al,
                                                   !.released = rec[i].released
                                                                   \/ (did /\ g = i)]
                               ELSE IF did /\ j = g /\ rec[j].pc \notin {"none", "done", "dead"}
                               THEN [rec[j] EXCEPT !.released = TRUE]
                               ELSE rec[j]]
                  /\ sinceRel' = IF did /\ rec[i].origin = "sensor" /\ i = LastSensor
                                 THEN 0 ELSE sinceRel
                  /\ video_writer' = IF did /\ HasWriterGlobal(variant)
                                     THEN [video_writer EXCEPT !.st = "closed"]
                                     ELSE video_writer
    /\ UNCHANGED <<camVars, alarmVars, cfgVars, sd, nCompleted, envVars, motion_enabled, recording,
                   motion_count, mpc, cd, sinceAcc, nStarted>>

\* motion_count += 1
RecCount(i) ==
    /\ rec[i].pc = "count"
    /\ motion_count' = motion_count + 1
    /\ rec' = [rec EXCEPT ![i].pc = After(variant, "count"),
                          ![i].counted = rec[i].counted + 1]
    /\ UNCHANGED <<camVars, alarmVars, cfgVars, stopVars, nCompleted, envVars, motion_enabled, recording,
                   mpc, cd, sinceAcc, sinceRel, nStarted>>

\* socketio.emit of the new count: the event carries motion_count as the
\* global reads now
RecEmit(i) ==
    /\ rec[i].pc = "emit"
    /\ rec' = [rec EXCEPT ![i].pc = After(variant, "emit"), ![i].emitN = motion_count]
    /\ UNCHANGED <<camVars, alarmVars, cfgVars, stopVars, nCompleted, envVars, motion_enabled, recording,
                   motion_count, mpc, cd, sinceAcc, sinceRel, nStarted>>

\* variation of RecDeliver: the upload is tried whether or not a bot exists
RecDeliverNoBotCheck(i) ==
    /\ rec[i].pc = "deliver"
    /\ IF rec[i].file = "disk"
       THEN rec' = [rec EXCEPT ![i].pc = "sending", ![i].sends = rec[i].sends + 1]
       ELSE rec' = [rec EXCEPT ![i].pc = After(variant, "deliver")]
    /\ UNCHANGED <<camVars, alarmVars, cfgVars, stopVars, nCompleted, envVars, motion_enabled, recording,
                   motion_count, mpc, cd, sinceAcc, sinceRel, nStarted>>

\* if bot and os.path.exists(filename): bot.send_video(...) is entered
RecDeliver(i) ==
    /\ rec[i].pc = "deliver"
    /\ IF bot /\ rec[i].file = "disk"
       THEN rec' = [rec EXCEPT ![i].pc = "sending", ![i].sends = rec[i].sends + 1]
       ELSE rec' = [rec EXCEPT ![i].pc = After(variant, "deliver")]
    /\ UNCHANGED <<camVars, alarmVars, cfgVars, stopVars, nCompleted, envVars, motion_enabled, recording,
                   motion_count, mpc, cd, sinceAcc, sinceRel, nStarted>>

\* variation of RecSent: a send that raised is tried again
RecSentRetries(i) ==
    /\ rec[i].pc = "sending"
    /\ \E res \in {"ok", "TelegramError", "Exception"} :
          rec' = [rec EXCEPT
                    ![i].pc = IF res = "ok" THEN After(variant, "deliver") ELSE "deliver",
                    ![i].sent = IF res = "ok" THEN "ok" ELSE "failed",
                    ![i].file = IF res = "ok" /\ variant # "new" THEN "removed" ELSE "disk"]
    /\ UNCHANGED <<camVars, alarmVars, cfgVars, stopVars, nCompleted, envVars, motion_enabled, recording,
                   motion_count, mpc, cd, sinceAcc, sinceRel, nStarted>>

\* bot.send_video returns, raises TelegramError or raises something else.
\* os.remove(filename) follows a successful send in debug2.py, debug3.py and
\* security_camera.py, any send in usb.py, none in new.py.  new.py publishes
\* 'Video sent', 'Failed to send' (except TelegramError) or 'Recording
\* failed' (the outer except clause); the others only print.
RecSent(i) ==
    /\ rec[i].pc = "sending"
    /\ \E res \in {"ok", "TelegramError", "Exception"} :
          rec' = [rec EXCEPT
                    ![i].pc = After(variant, "deliver"),
                    ![i].sent = IF res = "ok" THEN "ok" ELSE "failed",
                    ![i].file = IF (res = "ok" /\ variant # "new") \/ variant = "usb"
                                THEN "removed" ELSE "disk",
                    ![i].alert = IF variant # "new" THEN rec[i].alert
                                 ELSE CASE res = "ok" -> "Video sent"
                                        [] res = "TelegramError" -> "Failed to send"
                                        [] OTHER -> "Recording failed"]
    /\ UNCHANGED <<camVars, alarmVars, cfgVars, stopVars, nCompleted, envVars, motion_enabled, recording,
                   motion_count, mpc, cd, sinceAcc, sinceRel, nStarted>>

\* recording = False (usb.py: and video_writer = None)
RecClear(i) ==
    /\ rec[i].pc = "clear"
    /\ recording' = FALSE
    /\ rec' = [rec EXCEPT ![i].pc = After(variant, "clear"), ![i].active = FALSE]
    /\ video_writer' = NoWriter
    /\ UNCHANGED <<camVars, alarmVars, cfgVars, sd, nCompleted, envVars, motion_enabled, motion_count,
                   mpc, cd, sinceAcc, sinceRel, nStarted>>

\* record_video returns
RecEnd(i) ==
    /\ rec[i].pc = "exit"
    /\ rec' = [rec EXCEPT ![i] = [NoRec EXCEPT !.pc = "done",
                                               !.origin = rec[i].origin]]
    /\ nCompleted' = IF rec[i].status = "Completed" THEN nCompleted + 1
                     ELSE nCompleted
    /\ UNCHANGED <<camVars, alarmVars, cfgVars, stopVars, envVars, motion_enabled, recording,
                   motion_count, mpc, cd, sinceAcc, sinceRel, nStarted>>

(***************************************************************************)
(* The camera's other users: the /video_feed generator and the snapshot    *)
(* routes.  debug.py, debug2.py and usb.py read the one global `camera`    *)
(* (cv2.VideoCapture, opened at import); debug3.py opens a VideoCapture of *)
(* its own per user (get_camera); security_camera.py and new.py call       *)
(* picam2.capture_array.  No variant takes a lock around any of them.      *)
(***************************************************************************)
HasSnapshot(v) == v \in {"security_camera", "new", "usb"}

\* a client requests /video_feed: generate_frames starts
PreviewOpen ==
    /\ prev = "off"
    /\ prev' = "idle"
    /\ UNCHANGED <<snap, alarmVars, cfgVars, stopVars, nCompleted, envVars, motion_enabled, recording,
                   motion_count, mpc, cd, sinceAcc, sinceRel, nStarted, rec>>

\* generate_frames enters camera.read() / cam.read() / capture_array
PreviewRead ==
    /\ prev = "idle"
    /\ prev' = "reading"
    /\ UNCHANGED <<snap, alarmVars, cfgVars, stopVars, nCompleted, envVars, motion_enabled, recording,
                   motion_count, mpc, cd, sinceAcc, sinceRel, nStarted, rec>>

\* the read returns.  Without a frame the debug variants break out of the
\* loop (debug3.py then releases its handle); usb.py and the picamera2
\* variants sleep 1 s and go on.  With a frame usb.py evaluates
\* `if recording and video_writer:` and, when it holds, goes on to
\* video_writer.write(...).
PreviewFrame ==
    /\ prev = "reading"
    /\ \E ret \in BOOLEAN :
          prev' = IF ~ret /\ variant \in {"debug", "debug2", "debug3"} THEN "off"
                  ELSE IF ret /\ variant = "usb" /\ recording /\ video_writer.st # "None"
                  THEN "writing"
                  ELSE "idle"
    /\ UNCHANGED <<snap, alarmVars, cfgVars, stopVars, nCompleted, envVars, motion_enabled, recording,
                   motion_count, mpc, cd, sinceAcc, sinceRel, nStarted, rec>>

\* usb.py: video_writer.write(...) in generate_frames is made, on whatever
\* the global holds by now (on None it raises, which the loop's except
\* clause catches), and the frame is sent
PreviewWrite ==
    /\ prev = "writing"
    /\ prev' = "idle"
    /\ UNCHANGED <<snap, alarmVars, cfgVars, stopVars, nCompleted, envVars, motion_enabled, recording,
                   motion_count, mpc, cd, sinceAcc, sinceRel, nStarted, rec>>

\* /snapshot (usb.py: or the bot's /snapshot) enters its read
SnapshotRead ==
    /\ HasSnapshot(variant)
    /\ snap = "idle"
    /\ snap' = "reading"
    /\ UNCHANGED <<prev, alarmVars, cfgVars, stopVars, nCompleted, envVars, motion_enabled, recording,
                   motion_count, mpc, cd, sinceAcc, sinceRel, nStarted, rec>>

\* the snapshot's read returns and the response is sent
SnapshotDone ==
    /\ snap = "reading"
    /\ snap' = "idle"
    /\ UNCHANGED <<prev, alarmVars, cfgVars, stopVars, nCompleted, envVars, motion_enabled, recording,
                   motion_count, mpc, cd, sinceAcc, sinceRel, nStarted, rec>>

\* the components inside a read of the camera device
InRead ==
    {c \in {"preview"} : prev = "reading"}
        \cup {c \in {"snapshot"} : snap = "reading"}
        \cup {i \in Sessions : rec[i].pc = "reading"}

\* the components holding an open device handle of their own (debug3.py:
\* get_camera() in generate_frames and in record_video, released after the
\* loop)
OwnHandles ==
    IF variant # "debug3" THEN {}
    ELSE {c \in {"preview"} : prev # "off"}
            \cup {i \in Sessions : rec[i].pc \in {"loop", "reading", "release"}}

(***************************************************************************)
(* trigger_alarm, statement by statement, and the routes that start it.    *)
(***************************************************************************)
\* /test_alarm (debug variants), /trigger_alarm (new.py, usb.py), the bot's
\* /alarm (usb.py); security_camera.py has no alarm route
HasAlarmRoute(v) == v # "security_camera"

\* trigger_alarm publishes 'alarm_triggered' / 'new_alert' at its end
AlarmEmits(v) == v # "security_camera"

ManualAlarm ==
    /\ HasAlarmRoute(variant)
    /\ \E a \in Alarms :
          /\ a > MaxSessions
          /\ alarm[a].pc = "none"
          /\ \A b \in Alarms : (b > MaxSessions /\ b < a) => alarm[b].pc # "none"
          /\ alarm' = [alarm EXCEPT ![a] = SpawnedAlarm]
    /\ UNCHANGED <<camVars, buzzer, cfgVars, stopVars, nCompleted, envVars, motion_enabled, recording,
                   motion_count, mpc, cd, sinceAcc, sinceRel, nStarted, rec>>

\* buzzer.on(), then time.sleep(duration) starts
AlarmOn(a) ==
    /\ alarm[a].pc = "spawned"
    /\ buzzer' = TRUE
    /\ alarm' = [alarm EXCEPT ![a].pc = "sleep", ![a].left = AlarmTicks(variant)]
    /\ UNCHANGED <<camVars, cfgVars, stopVars, nCompleted, envVars, motion_enabled, recording,
                   motion_count, mpc, cd, sinceAcc, sinceRel, nStarted, rec>>

\* variation of AlarmOff: the alarm thread also clears the recording flag
AlarmOffClearsFlag(a) ==
    /\ alarm[a].pc = "sleep"
    /\ alarm[a].left = 0
    /\ buzzer' = FALSE
    /\ recording' = FALSE
    /\ alarm' = [alarm EXCEPT ![a].pc = IF AlarmEmits(variant) THEN "emit" ELSE "done"]
    /\ UNCHANGED <<camVars, cfgVars, stopVars, nCompleted, envVars, motion_enabled,
                   motion_count, mpc, cd, sinceAcc, sinceRel, nStarted, rec>>

\* the sleep is over: buzzer.off()
AlarmOff(a) ==
    /\ alarm[a].pc = "sleep"
    /\ alarm[a].left = 0
    /\ buzzer' = FALSE
    /\ alarm' = [alarm EXCEPT ![a].pc = IF AlarmEmits(variant) THEN "emit" ELSE "done"]
    /\ UNCHANGED <<camVars, cfgVars, stopVars, nCompleted, envVars, motion_enabled, recording,
                   motion_count, mpc, cd, sinceAcc, sinceRel, nStarted, rec>>

\* socketio.emit('alarm_triggered') / socketio.emit('new_alert', ...)
AlarmEmit(a) ==
    /\ alarm[a].pc = "emit"
    /\ alarm' = [alarm EXCEPT ![a].pc = "done", ![a].said = alarm[a].said + 1]
    /\ UNCHANGED <<camVars, buzzer, cfgVars, stopVars, nCompleted, envVars, motion_enabled, recording,
                   motion_count, mpc, cd, sinceAcc, sinceRel, nStarted, rec>>

(***************************************************************************)
(* Specifications.  Spec: the sensor loop, the recording threads and the   *)
(* control routes.  SpecCam adds the camera's other users, SpecAlarm the   *)
(* alarm threads' own steps (which touch only the buzzer).                 *)
(***************************************************************************)
\* the scripts that install signal handlers
HasHandler(v) == v \in {"usb", "security_camera", "new"}

\* the calls of cleanup()'s first try block, in the order of the source
CleanupFirst ==
    IF variant = "usb"
    THEN <<"camera.release">>
         \o (IF video_writer.st # "None" THEN <<"video_writer.release">> ELSE <<>>)
         \o (IF bot THEN <<"telegram_app.stop">> ELSE <<>>)
         \o <<"buzzer.off">>
    ELSE <<"picam2.stop_recording", "picam2.close">>

\* the calls of cleanup()'s second try block (the picamera2 variants)
CleanupSecond == IF variant = "usb" THEN <<>> ELSE <<"buzzer.off">>

\* the calls of a try block that are made when its k-th call fails (k = 0: none fails)
Attempted(block, k) == IF k = 0 THEN block ELSE SubSeq(block, 1, k)

\* the signal arrives: the whole handler
Shutdown ==
    /\ sd.pc = "running"
    /\ IF ~HasHandler(variant)
       THEN /\ sd' = [NoStop EXCEPT !.pc = "exited"]
            /\ UNCHANGED <<buzzer, video_writer>>
       ELSE \E k1 \in 0..Len(CleanupFirst), k2 \in 0..Len(CleanupSecond),
               how \in {"raise", "hang"} :
              LET first == Attempted(CleanupFirst, k1)
                  hung1 == k1 > 0 /\ how = "hang"
                  second == IF hung1 THEN <<>> ELSE Attempted(CleanupSecond, k2)
                  hung == hung1 \/ (k2 > 0 /\ how = "hang")
                  bad == (IF k1 > 0 THEN {CleanupFirst[k1]} ELSE {})
                         \cup (IF ~hung1 /\ k2 > 0 THEN {CleanupSecond[k2]} ELSE {})
                  calls == first \o second
                  off == \E n \in 1..Len(calls) :
                            calls[n] = "buzzer.off" /\ calls[n] \notin bad
                  rel == \E n \in 1..Len(calls) :
                            calls[n] = "video_writer.release" /\ calls[n] \notin bad
              IN /\ sd' = [pc |-> IF hung THEN "hung"
                                 ELSE IF variant = "usb" THEN "exited"
                                 ELSE "cleaned",
                          log |-> calls, failed |-> bad]
                 /\ buzzer' = IF off THEN FALSE ELSE buzzer
                 /\ video_writer' = IF rel THEN [video_writer EXCEPT !.st = "closed"]
                                    ELSE video_writer
    /\ UNCHANGED <<camVars, alarm, cfgVars, nCompleted, envVars, motion_enabled,
                   recording, motion_count, mpc, cd, sinceAcc, sinceRel, nStarted, rec>>

\* the HTTP server (and with it every route) is up: the main thread has not
\* left socketio.run and is not held by the handler
RoutesUp == sd.pc \in {"running", "cleaned"}

\* the interpreter is alive: before exit, and after it for as long as a
\* non-daemon thread (record_video, trigger_alarm) runs
Alive ==
    \/ sd.pc # "exited"
    \/ \E i \in Sessions : rec[i].pc \notin {"none", "done", "dead"}
    \/ \E a \in Alarms : alarm[a].pc \notin {"none", "done"}

Next ==
    \/ Tick
    \/ Poll
    \/ PollError
    \/ ToggleMotion
    \/ TestRecording
    \/ \E i \in Sessions : RecBegin(i)
    \/ \E i \in Sessions : RecOpen(i)
    \/ \E i \in Sessions : RecLoop(i)
    \/ \E i \in Sessions : RecRead(i)
    \/ \E i \in Sessions : RecRelease(i)
    \/ \E i \in Sessions : RecCount(i)
    \/ \E i \in Sessions : RecEmit(i)
    \/ \E i \in Sessions : RecDeliver(i)
    \/ \E i \in Sessions : RecSent(i)
    \/ \E i \in Sessions : RecClear(i)
    \/ \E i \in Sessions : RecEnd(i)

Spec == Init /\ [][Next]_vars

NextCam ==
    \/ Next
    \/ PreviewOpen
    \/ PreviewRead
    \/ PreviewFrame
    \/ PreviewWrite
    \/ SnapshotRead
    \/ SnapshotDone

SpecCam == Init /\ [][NextCam]_vars

\* no trigger_alarm thread is at a computing step: each is in its
\* time.sleep(duration) with time left, or not running
AlarmsAsleep ==
    \A a \in Alarms :
        \/ alarm[a].pc \in {"none", "done"}
        \/ alarm[a].pc = "sleep" /\ alarm[a].left > 0

NextAlarm ==
    \/ AlarmsAsleep /\ Tick
    \/ Poll
    \/ PollError
    \/ ToggleMotion
    \/ TestRecording
    \/ \E i \in Sessions : RecBegin(i)
    \/ \E i \in Sessions : RecOpen(i)
    \/ \E i \in Sessions : RecLoop(i)
    \/ \E i \in Sessions : RecRead(i)
    \/ \E i \in Sessions : RecRelease(i)
    \/ \E i \in Sessions : RecCount(i)
    \/ \E i \in Sessions : RecEmit(i)
    \/ \E i \in Sessions : RecDeliver(i)
    \/ \E i \in Sessions : RecSent(i)
    \/ \E i \in Sessions : RecClear(i)
    \/ \E i \in Sessions : RecEnd(i)
    \/ ManualAlarm
    \/ \E a \in Alarms : AlarmOn(a)
    \/ \E a \in Alarms : AlarmOff(a)
    \/ \E a \in Alarms : AlarmEmit(a)

SpecAlarm == Init /\ [][NextAlarm]_vars

NextStop ==
    \/ Shutdown
    \/ Alive /\ Tick
    \/ Alive /\ Poll
    \/ Alive /\ PollError
    \/ RoutesUp /\ ToggleMotion
    \/ RoutesUp /\ TestRecording
    \/ \E i \in Sessions : RecBegin(i)
    \/ \E i \in Sessions : RecOpen(i)
    \/ \E i \in Sessions : RecLoop(i)
    \/ \E i \in Sessions : RecRead(i)
    \/ \E i \in Sessions : RecRelease(i)
    \/ \E i \in Sessions : RecCount(i)
    \/ \E i \in Sessions : RecEmit(i)
    \/ \E i \in Sessions : RecDeliver(i)
    \/ \E i \in Sessions : RecSent(i)
    \/ \E i \in Sessions : RecClear(i)
    \/ \E i \in Sessions : RecEnd(i)

SpecStop == Init /\ [][NextStop]_vars

\* the toggle handlers taken statement by statement, beside the sensor loop
\* and the recorder threads
NextToggle ==
    \/ \E h \in Togglers : ToggleLoad(h)
    \/ \E h \in Togglers : ToggleStore(h)
    \/ Tick
    \/ Poll
    \/ PollError
    \/ \E i \in Sessions : RecBegin(i)
    \/ \E i \in Sessions : RecOpen(i)
    \/ \E i \in Sessions : RecLoop(i)
    \/ \E i \in Sessions : RecRead(i)
    \/ \E i \in Sessions : RecRelease(i)
    \/ \E i \in Sessions : RecCount(i)
    \/ \E i \in Sessions : RecEmit(i)
    \/ \E i \in Sessions : RecDeliver(i)
    \/ \E i \in Sessions : RecSent(i)
    \/ \E i \in Sessions : RecClear(i)
    \/ \E i \in Sessions : RecEnd(i)

SpecToggle == Init /\ [][NextToggle]_vars

TypeOK ==
    /\ variant \in Variants
    /\ motion_count \in 0..MaxSessions
    /\ nCompleted \in 0..MaxSessions
    /\ cd \in 0..CooldownTicks(variant)
    /\ now \in 0..MaxClock
(***************************************************************************)
(* Properties                                                              *)
(***************************************************************************)

\* the step in which motion_detection starts a recorder thread
SensorAccept ==
    /\ nStarted < MaxSessions
    /\ nStarted' = nStarted + 1
    /\ rec'[nStarted + 1].origin = "sensor"

\* the step in which any path starts recorder thread i
Starts(i) == rec[i].pc = "none" /\ rec'[i].pc = "spawned"

\* every recorder thread has run to its end or died
Quiescent == \A i \in Sessions : rec[i].pc \in {"none", "done", "dead"}

\* C1: at any instant at most one recording session is between setting
\* recording = True and clearing it.
C1_AtMostOneActive == Cardinality({i \in Sessions : rec[i].active}) <= 1

\* C2 (as written): an acceptance by the sensor loop comes no sooner than
\* COOLDOWN_TIME after the previous sensor-started session released the camera.
C2_CooldownFromRelease ==
    [][SensorAccept => (sinceRel = -1 \/ sinceRel >= CooldownTicks(variant))]_vars

\* C2 (amended): an acceptance by the sensor loop comes no sooner than
\* COOLDOWN_TIME after the previous acceptance, and only with recording false;
\* the time since the release of the camera does not enter.
C2_CooldownFromAcceptance ==
    [][SensorAccept => /\ ~recording
                       /\ (sinceAcc = -1 \/ sinceAcc >= CooldownTicks(variant))]_vars

\* a second acceptance less than COOLDOWN_TIME after the first session's release
C2_Witness ==
    /\ nStarted = 2
    /\ rec[1].origin = "sensor" /\ rec[1].pc = "done"
    /\ nCompleted = 1
    /\ rec[2].origin = "sensor" /\ rec[2].pc = "spawned"
    /\ COOLDOWN_TIME(variant) > RECORD_DURATION(variant)

\* debug.py (COOLDOWN_TIME 5, RECORD_DURATION 10) with motion read at t = 0, 1, 2
C3_Scenario == variant = "debug" /\ motion012

\* the part of the scenario's outcome that does not depend on the last instant:
\* the first session starts at t = 0 unless the monitor died, and leaves its
\* loop at t = 10
C3_FirstSession ==
    /\ now >= 1 => (nStarted >= 1 \/ mpc = "dead")
    /\ nStarted >= 1 => rec[1].origin = "sensor"
    /\ rec[1].pc \in {"release", "count", "emit", "clear", "exit", "done"}
          => now >= 10
    /\ rec[1].pc \in {"release", "count", "emit", "clear", "exit"} => now = 10

\* C3 (as written): one session from t = 0 to t = 10, and no reading accepted
\* before t = 15.
C3_NoAcceptanceBefore15 ==
    C3_Scenario => (C3_FirstSession /\ (now < 15 => nStarted <= 1))

\* C3 (amended): one session from t = 0 to t = 10, and no reading accepted
\* before t = 10, when recording is cleared; the cooldown sleep ended at t = 5.
C3_NoAcceptanceBefore10 ==
    C3_Scenario => (C3_FirstSession /\ (now < 10 => nStarted <= 1))

\* the second acceptance, at t = 10
C3_Witness ==
    /\ C3_Scenario
    /\ now = 10
    /\ rec[1].pc = "done"
    /\ rec[2].origin = "sensor" /\ rec[2].pc = "spawned"

\* C4: once every session is over, motion_count is the number of sessions that
\* reached Completed, and no Failed or Aborted session has incremented it.
C4_CountIsCompleted ==
    /\ Quiescent => motion_count = nCompleted
    /\ \A i \in Sessions :
          rec[i].status \in {"Failed", "Aborted"} => rec[i].counted = 0

\* C5: a session stopped early by motion_enabled is counted and
\* its file handed to delivery, as a full-duration one is.
C5_EarlyStopCounted ==
    \A i \in Sessions :
        (rec[i].early /\ rec[i].status = "Completed" /\ rec[i].pc = "exit")
            => (rec[i].counted = 1 /\ (bot => rec[i].sends = 1))

\* C6 (as written): once motion_enabled has been cleared during a session's
\* loop, no tick passes before the session leaves the loop.
C6_LeavesAfterDisable ==
    [][\A i \in Sessions :
          (rec[i].cancel /\ rec[i].pc \in {"loop", "reading"})
              => \/ rec'[i].pc = "release"
                 \/ /\ rec'[i].el = rec[i].el
                    /\ rec'[i].pc \in {"loop", "reading"}]_vars

\* C6 (amended): if motion_enabled is still false when the loop next evaluates
\* its condition, the session leaves the loop there, before a tick passes; a
\* disable that is undone before that evaluation goes unnoticed.
C6_LeavesIfStillDisabled ==
    [][\A i \in Sessions :
          (rec[i].cancel /\ rec[i].pc \in {"loop", "reading"} /\ ~motion_enabled)
              => \/ rec'[i].pc = "release"
                 \/ /\ rec'[i].el = rec[i].el
                    /\ rec'[i].pc \in {"loop", "reading"}
                    /\ rec[i].pc = "loop" => rec'[i].pc = "loop"]_vars

\* a session that left its loop early, motion_enabled still false
C6_Witness ==
    \E i \in Sessions :
        rec[i].early /\ rec[i].pc = "release" /\ rec[i].el = 0 /\ ~motion_enabled

\* C7 (as written): every session is started with motion_enabled true, no
\* session active and the cooldown elapsed, whatever path starts it.
C7_StartsOnlyFromAcceptance ==
    [][\A i \in Sessions :
          Starts(i) => /\ motion_enabled
                       /\ \A j \in Sessions : ~rec[j].active
                       /\ cd = 0
                       /\ (sinceAcc = -1 \/ sinceAcc >= CooldownTicks(variant))]_vars

\* C7 (amended): every path starts a session only at a check that reads
\* recording false; the sensor loop in addition only outside its cooldown sleep,
\* with the sensor reading motion and motion_enabled true.  /test_recording
\* looks at nothing but recording.
C7_StartChecks ==
    [][\A i \in Sessions :
          Starts(i) => /\ ~recording
                       /\ rec'[i].origin = "sensor"
                            => (pir /\ motion_enabled /\ mpc = "run" /\ cd = 0)
                       /\ rec'[i].origin = "test" => HasTestRecording(variant)]_vars

\* /test_recording has started a session during the monitor's cooldown sleep
C7_Witness ==
    \E i \in Sessions : rec[i].origin = "test" /\ rec[i].pc = "spawned" /\ cd > 0

\* C8 (as written): every session the monitor starts follows a reading of no
\* motion since the monitor's previous acceptance.
C8_EdgeTriggered ==
    \A i \in Sessions : rec[i].origin = "sensor" => rec[i].edge

\* C8 (amended): the monitor is level-triggered: at its check it accepts
\* exactly when the sensor reads motion, recording is false and motion_enabled
\* is true, whether or not the sensor read no motion since it last accepted.
C8_LevelTriggered ==
    (AtPoll /\ nStarted < MaxSessions)
        => ((ENABLED Poll) = (pir /\ ~recording /\ motion_enabled))

\* a second event from a sensor that stayed high since the previous acceptance
C8_Witness ==
    /\ rec[1].origin = "sensor" /\ rec[1].pc = "done"
    /\ rec[2].origin = "sensor" /\ ~rec[2].edge

\* C9 (as written): no session is started from a high level that began while
\* motion_enabled was false.
C9_NoStartFromStaleHigh ==
    \A i \in Sessions : ~rec[i].stale

\* C9 (amended): the toggle itself starts nothing, but the monitor's next
\* check after the re-enable accepts the level that is still high, if
\* recording is false: no new rising edge is needed.
C9_StaleHighAccepted ==
    /\ [][motion_enabled' # motion_enabled
            => /\ nStarted' = nStarted
               /\ alarm' = alarm
               /\ recording' = recording
               /\ \A i \in Sessions : rec'[i].pc = rec[i].pc]_vars
    /\ []((roseOff /\ pir /\ motion_enabled /\ ~recording /\ AtPoll
             /\ nStarted < MaxSessions) => ENABLED Poll)

\* a recording and an alarm started from a level that rose while disabled
C9_Witness ==
    \E i \in Sessions :
        /\ rec[i].stale /\ rec[i].origin = "sensor"
        /\ alarm[i].pc = "spawned"
        /\ motion_enabled

\* C10: at any instant at most one of preview, snapshot and recording is
\* inside a read of the camera or holds a handle of its own on the device.
C10_OneCameraUser == Cardinality(InRead \cup OwnHandles) <= 1

\* a session of the sensor loop whose recording target failed to open and
\* whose thread is about to return
OpenFailed(i) ==
    /\ rec[i].origin = "sensor"
    /\ rec[i].status = "Aborted"
    /\ rec[i].pc = "exit"

\* C11 (as written): when the recording target fails to open, motion_count is
\* not incremented, the flag is cleared, and motion_detection is not in a
\* cooldown: it can accept the very next reading.
C11_NoCooldownAfterOpenFailure ==
    \A i \in Sessions :
        OpenFailed(i) => /\ rec[i].counted = 0
                         /\ ~rec[i].active
                         /\ cd = 0

\* C11 (amended): when the recording target fails to open (noticed by usb.py,
\* security_camera.py and new.py; the debug scripts do not check the writer and
\* never give a session up), motion_count is not incremented and the flag is
\* cleared, but motion_detection is already in its COOLDOWN_TIME sleep, which
\* is not cut short: no reading is accepted before it ends.
C11_CooldownAfterOpenFailure ==
    /\ \A i \in Sessions :
           OpenFailed(i) => /\ rec[i].counted = 0
                            /\ ~rec[i].active
                            /\ ~recording
                            /\ cd = CooldownTicks(variant)
                            /\ ~ENABLED Poll
    /\ variant \in {"debug", "debug2", "debug3"}
           => \A i \in Sessions : rec[i].status # "Aborted"

\* the target of the first accepted event failed to open while the sensor is
\* high and a second session could still be started
C11_Witness ==
    /\ OpenFailed(1)
    /\ pir /\ motion_enabled /\ ~recording
    /\ nStarted < MaxSessions
    /\ mpc = "run"

\* C12: every session whose recording target failed to open has published a
\* failure event by the time its thread returns.
C12_OpenFailurePublished ==
    \A i \in Sessions :
        (rec[i].status = "Aborted" /\ rec[i].pc = "exit")
            => rec[i].alert = "Recording failed"

\* C13: a session that failed on a capture error never attempts a delivery,
\* and its thread does not end with the recording flag still held.
C13_FailedIsReleasedUnsent ==
    \A i \in Sessions :
        rec[i].status = "Failed"
            => /\ rec[i].sends = 0
               /\ rec[i].pc \in {"exit", "dead"} => ~rec[i].active

\* C14: after a failed delivery attempt the recording file is still on disk
\* and a failure event about the delivery has been published.
C14_FailedDeliveryKeepsFile ==
    \A i \in Sessions :
        rec[i].sent = "failed"
            => /\ rec[i].file = "disk"
               /\ rec[i].alert \in {"Failed to send", "Recording failed"}

\* C15: a successful delivery removes the local file and publishes a success
\* event, and a file is removed only after a successful delivery.
C15_RemovedIffDelivered ==
    \A i \in Sessions :
        /\ rec[i].sent = "ok" => (rec[i].file = "removed" /\ rec[i].alert = "Video sent")
        /\ rec[i].file = "removed" => rec[i].sent = "ok"

\* C16: when no bot exists (bot is None), no session attempts a delivery, no
\* event about a delivery is published, and no recording file is removed.
C16_NoBotNoDelivery ==
    ~bot => \A i \in Sessions :
                /\ rec[i].sends = 0
                /\ rec[i].pc # "sending"
                /\ rec[i].sent = "none"
                /\ rec[i].alert \notin {"Failed to send", "Video sent"}
                /\ rec[i].file # "removed"

\* a script that would deliver runs without a bot, and a completed session
\* returns with its file on disk
C16_Witness ==
    /\ ~bot /\ HasBot(variant)
    /\ \E i \in Sessions :
           /\ rec[i].pc = "exit"
           /\ rec[i].status = "Completed"
           /\ rec[i].file = "disk"

\* C17: a session that has begun a delivery attempt has already been counted.
C17_CountedBeforeDelivery ==
    \A i \in Sessions : rec[i].sends > 0 => rec[i].counted = 1

\* record_video thread i is inside bot.send_video
Uploading(i) == rec[i].pc = "sending"

StepOf(call) ==
    CASE call \in {"video_writer.release", "picam2.stop_recording"} -> 1
      [] call \in {"camera.release", "picam2.close"} -> 2
      [] call = "buzzer.off" -> 3
      [] OTHER -> 4

\* C19: in a script with a handler, a signal whose handling is over and in
\* which no call failed has released the camera and switched the actuator
\* off, has closed the notification port where there is one (usb.py's
\* telegram_app), has made its calls in the order recording, camera,
\* actuator, port, and has ended the process.
C19_ShutdownOrder ==
    (HasHandler(variant) /\ sd.pc # "running" /\ sd.failed = {})
        => /\ sd.pc = "exited"
           /\ \A m, n \in 1..Len(sd.log) :
                  m < n => StepOf(sd.log[m]) < StepOf(sd.log[n])
           /\ \E n \in 1..Len(sd.log) : StepOf(sd.log[n]) = 2
           /\ \E n \in 1..Len(sd.log) : StepOf(sd.log[n]) = 3
           /\ (variant = "usb" /\ bot)
                  => \E n \in 1..Len(sd.log) : StepOf(sd.log[n]) = 4

\* C20: in a script with a handler, once the handler has returned the call
\* that switches the actuator off has been made, whichever earlier call
\* raised.
C20_ActuatorAlwaysOff ==
    (HasHandler(variant) /\ sd.pc \in {"cleaned", "exited"})
        => \E n \in 1..Len(sd.log) : sd.log[n] = "buzzer.off"

\* C21: the motion_detection thread is never ended by an error of the
\* sensor read: it is polling (or in its cooldown sleep) at every instant.
C21_PollingSurvivesReadError == mpc = "run"

\* C22: once every recorder thread has ended, whatever failed in it, a high
\* reading taken by the running loop with motion enabled and the cooldown
\* over is accepted.
C22_AcceptsAfterFailure ==
    (Quiescent /\ AtPoll /\ pir /\ motion_enabled /\ nStarted < MaxSessions)
        => ENABLED Poll

\* C23: a session that has incremented motion_count had released its writer
\* (stopped its recording) before.
C23_ReleasedBeforeCounted ==
    \A i \in Sessions : rec[i].counted > 0 => rec[i].released

\* C24: a count carried by an event about a session has been reached by
\* motion_count, and the session's own count event follows its increment.
C24_PublishedCountReached ==
    \A i \in Sessions :
        /\ rec[i].alertN <= motion_count
        /\ rec[i].emitN > 0 => (rec[i].counted = 1 /\ rec[i].emitN <= motion_count)

\* C25: the step in which motion_detection accepts a reading starts exactly
\* one record_video thread and exactly one trigger_alarm thread and leaves
\* the loop running with only its cooldown sleep ahead; the loop waits for
\* neither thread: whenever it is at its check with a high reading, the flag
\* clear and motion enabled, it accepts.
C25_OneAlarmOneRecording ==
    /\ [][SensorAccept
            => /\ Cardinality({i \in Sessions : Starts(i)}) = 1
               /\ Cardinality({a \in Alarms : /\ alarm[a].pc = "none"
                                              /\ alarm'[a].pc = "spawned"}) = 1
               /\ \A i \in Sessions : ~Starts(i) => rec'[i] = rec[i]
               /\ mpc' = "run"
               /\ cd' = CooldownTicks(variant)]_vars
    /\ []((AtPoll /\ Accepts /\ nStarted < MaxSessions) => ENABLED Poll)

\* a second reading is accepted, and both its threads started, while the
\* recorder thread of the first has not returned
C25_Witness ==
    /\ nStarted = 2
    /\ rec[2].origin = "sensor" /\ rec[2].pc = "spawned"
    /\ alarm[2].pc = "spawned"
    /\ rec[1].origin = "sensor" /\ rec[1].pc \notin {"none", "done", "dead"}

\* C26: while a session is Active or the cooldown has not elapsed, the
\* condition under which motion_detection accepts a reading does not hold.
C26_DroppedWhileActive ==
    ((\E i \in Sessions : rec[i].active) \/ cd > 0) => ~(AtPoll /\ Accepts)

\* C27: a trigger_alarm thread that has ended has published exactly one
\* event, and the buzzer is off once every alarm thread has ended.
C27_AlarmEndsOffAndPublished ==
    /\ \A a \in Alarms : alarm[a].pc = "done" => alarm[a].said = 1
    /\ (\A a \in Alarms : alarm[a].pc \in {"none", "done"}) => ~buzzer

\* C28: at most one trigger_alarm thread is between its buzzer-on and its
\* buzzer-off at any instant.
C28_OneAlarmAtATime ==
    Cardinality({a \in Alarms : alarm[a].pc = "sleep"}) <= 1

\* C29: a step that changes motion_enabled leaves the buzzer, every
\* trigger_alarm thread, the recording flag and motion_count as they are;
\* an alarm thread leaves its sleep only when its duration has run out, and
\* does so whether motion is enabled or not.
C29_ToggleLeavesAlarm ==
    /\ [][motion_enabled' # motion_enabled
            => /\ buzzer' = buzzer
               /\ alarm' = alarm
               /\ recording' = recording
               /\ motion_count' = motion_count]_vars
    /\ [][\A a \in Alarms :
            (alarm[a].pc = "sleep" /\ alarm'[a].pc # "sleep") => alarm[a].left = 0]_vars
    /\ [](\A a \in Alarms :
            (alarm[a].pc = "sleep" /\ alarm[a].left = 0) => ENABLED AlarmOff(a))

\* motion was disabled after the sensor loop started an alarm thread, and
\* that thread is in its sleep with the buzzer on
C29_Witness ==
    /\ ~motion_enabled
    /\ alarm[1].pc = "sleep"
    /\ buzzer

\* C30: a session calls bot.send_video at most once; after the call has
\* returned or raised the session is never inside a send again.
C30_OneDeliveryAttempt ==
    \A i \in Sessions :
        /\ rec[i].sends <= 1
        /\ rec[i].sent # "none" => (rec[i].sends = 1 /\ rec[i].pc # "sending")

\* a session whose only send raised is about to return
C30_Witness ==
    \E i \in Sessions :
        /\ rec[i].sent = "failed"
        /\ rec[i].sends = 1
        /\ rec[i].pc = "exit"

\* C31: recording changes only in a step of a record_video thread (its
\* recording = True, its failed open, its recording = False), motion_count
\* only in a record_video thread's increment, motion_enabled only in the
\* toggle command; a step of a trigger_alarm thread or of an alarm route
\* changes none of the three.
C31_SingleWriter ==
    [][/\ recording' # recording
            => \E i \in Sessions : RecBegin(i) \/ RecOpen(i) \/ RecClear(i)
       /\ motion_count' # motion_count => \E i \in Sessions : RecCount(i)
       /\ motion_enabled' # motion_enabled => ToggleMotion
       /\ (alarm' # alarm \/ buzzer' # buzzer)
            => /\ recording' = recording
               /\ motion_count' = motion_count
               /\ motion_enabled' = motion_enabled]_vars

\* all three have been written, and an alarm thread has run to its end
\* meanwhile
C31_Witness ==
    /\ recording
    /\ motion_count > 0
    /\ ~motion_enabled
    /\ \E a \in Alarms : alarm[a].pc = "done"

\* C32: once no record_video thread is running any more, whichever way each
\* of them ended, the recording flag is clear and no ended thread is
\* still between its recording = True and its recording = False.
C32_FlagClearedOnEveryExit ==
    Quiescent
        => /\ ~recording
           /\ \A i \in Sessions : ~rec[i].active

\* C33: whenever generate_frames is at its video_writer.write(...), the
\* object the global holds is an open writer, and no record_video thread is
\* inside the iteration of its loop that writes to it.
C33_PreviewWritesOpenWriter ==
    prev = "writing"
        => /\ video_writer.st = "open"
           /\ \A i \in Sessions : rec[i].pc # "reading"

\* C34: whenever no toggle handler is in flight, motion_enabled has been
\* flipped once per completed handler: it has its initial value (True) after
\* an even number of them and the opposite after an odd number.
C34_EachToggleFlipsOnce ==
    (\A h \in Togglers : tg[h].pc = "idle") => (motion_enabled <=> ~toggledOdd)

\* C35: in a script with a handler, once the handler has returned no
\* trigger_alarm thread is left that can still switch the buzzer on, and no
\* step starts a record_video thread.
C35_QuietAfterShutdown ==
    /\ []((HasHandler(variant) /\ sd.pc \in {"cleaned", "exited"})
            => \A a \in Alarms : ~ENABLED AlarmOn(a))
    /\ [][(HasHandler(variant) /\ sd.pc \in {"cleaned", "exited"})
            => \A i \in Sessions : ~Starts(i)]_vars

\* C36: the buzzer is on for as long as any trigger_alarm thread is between
\* its buzzer.on() and its buzzer.off().
C36_OnThroughoutEveryAlarm ==
    \A a \in Alarms : alarm[a].pc = "sleep" => buzzer
====
